---- MODULE Spec2Model ----
(***************************************************************************)
(* image_compare.py: compare_images and _save_image_diff, as a state       *)
(* machine over the files of the working directory.                        *)
(*                                                                         *)
(* A file is a record: kind "absent", "dir", "data" (bytes that are no     *)
(* image) or "png" (width w, height h, pixels px in RGB order, px a        *)
(* function from <<x, y>> to a triple).  An image in memory is a record    *)
(* [w, h, px]; OpenCV holds pixels in BGR order, Pillow in RGB order.      *)
(* A score or a threshold is held as its whole number of ten-thousandths   *)
(* (10000 is 1.0; 0.9999993 is 9999), a value of the similarity map as its *)
(* whole number of MapUnit-ths, the part beyond cut off.                   *)
(***************************************************************************)
EXTENDS Integers, Sequences, FiniteSets, Bags, TLC

VARIABLES
    fs,              \* the files: path -> file
    pc,              \* position of the current invocation of compare_images
    image_one,       \* argument: path of the first image
    image_two,       \* argument: path of the second image
    ssim_threshold,  \* argument
    save_diff_to,    \* argument: a path or None
    _image_one,      \* local of compare_images: cv2 image or NoImage
    _image_two,      \* local of compare_images: cv2 image or NoImage
    score,           \* local of compare_images: <<s>> once computed, NoScore before
    stdout,          \* what the current invocation has printed
    result,          \* what the current invocation returned: <<s>>, or NoScore
    err,             \* the exception that left the current invocation ("" if none)
    diff,            \* local of compare_images: the similarity map, NoMap before
    steps,           \* the statements the current invocation has begun, one
                     \* that raised included
    saved,           \* the current invocation's diff_image.save completed
    fs0,             \* the files as they were when the current invocation began
    artifacts,       \* the paths holding a file written by diff_image.save
    ncalls           \* invocations begun so far

vars == <<fs, pc, image_one, image_two, ssim_threshold, save_diff_to,
          _image_one, _image_two, score, diff, stdout, result, err, steps,
          saved, fs0, artifacts, ncalls>>

\* ------------------------------------------------------------------ bounds

\* invocations of compare_images in one behaviour
MaxCalls == 2

\* ------------------------------------------------------------ file system

_temp_image_one == ".temp-image-diff-one.png"

_temp_image_two == ".temp-image-diff-two.png"

TempNames == {_temp_image_one, _temp_image_two}

\* the default of save_diff_to
DefaultDiff == "my-diff.png"

Paths == {"one.png", "two.png", DefaultDiff, _temp_image_one, _temp_image_two}

None == "<None>"

\* no score yet (score, result): the empty sequence; a score s is <<s>>
NoScore == <<>>

Absent == [kind |-> "absent"]

Dir == [kind |-> "dir"]

Garbage == [kind |-> "data"]

\* no similarity map yet
NoMap == <<>>

NoImage == [w |-> 0, h |-> 0, px |-> <<>>]

Coords(w, h) == (0 .. (w - 1)) \X (0 .. (h - 1))

\* the three channels of a pixel in the opposite order (BGR <-> RGB)
Swap(p) == <<p[3], p[2], p[1]>>

PngFile(w, h, px) == [kind |-> "png", w |-> w, h |-> h, px |-> px]

White == <<255, 255, 255>>

\* pure blue as an RGB triple
BlueRGB == <<0, 0, 255>>

\* the images the input files may hold
ImgA == PngFile(7, 7, [c \in Coords(7, 7) |-> White])

ImgB ==
    PngFile(7, 7, [c \in Coords(7, 7) |->
                      IF c \in {<<2, 2>>, <<6, 2>>, <<2, 6>>} THEN BlueRGB ELSE White])

\* an image smaller than compare_ssim's window
ImgC == PngFile(1, 2, [c \in Coords(1, 2) |-> White])

\* ---------------------------------------------------------------- OpenCV

\* imread, were it to hand back an empty 1x1 image for a path it cannot decode
imread_lenient(files, path) ==
    IF files[path].kind = "png"
    THEN [w |-> files[path].w, h |-> files[path].h,
          px |-> [c \in Coords(files[path].w, files[path].h) |-> Swap(files[path].px[c])]]
    ELSE [w |-> 1, h |-> 1, px |-> [c \in Coords(1, 1) |-> <<0, 0, 0>>]]

\* cv2.imread(path): the BGR image, or None when the path is no readable image
imread(files, path) ==
    IF files[path].kind = "png"
    THEN [w |-> files[path].w, h |-> files[path].h,
          px |-> [c \in Coords(files[path].w, files[path].h) |-> Swap(files[path].px[c])]]
    ELSE NoImage

\* cv2.cvtColor(img, cv2.COLOR_BGR2GRAY): Y = 0.299 R + 0.587 G + 0.114 B in
\* OpenCV's 14-bit fixed point, (1868 B + 9617 G + 4899 R + 2^13) >> 14
cvtColor(img) ==
    [w |-> img.w, h |-> img.h,
     px |-> [c \in Coords(img.w, img.h) |->
                (1868 * img.px[c][1] + 9617 * img.px[c][2] + 4899 * img.px[c][3] + 8192)
                    \div 16384]]

\* cv2.imwrite(path, img): writes the PNG (RGB order); returns False and writes
\* nothing when the path cannot be opened for writing
imwrite(files, path, img) ==
    IF files[path].kind = "dir"
    THEN files
    ELSE [files EXCEPT ![path] =
            PngFile(img.w, img.h, [c \in Coords(img.w, img.h) |-> Swap(img.px[c])])]

\* os.remove(path) raises unless the path is a file
CanRemove(files, path) == files[path].kind \in {"png", "data"}

remove(files, path) == [files EXCEPT ![path] = Absent]

\* the colour of the highlight rectangles, (0, 0, 255) in BGR order
Red == <<0, 0, 255>>

\* cv2.rectangle(img, (x, y), (x + w, y + h), (0, 0, 255), 2): c lies on the
\* outline of the rectangle with corners (x, y) and (x + w, y + h), drawn with
\* thickness 2 (the pixels within one pixel of the outline, but for the four
\* outermost corner pixels, which the rounded line joins leave alone)
OnOutline(c, x, y, w, h) ==
    /\ x - 1 <= c[1] /\ c[1] <= x + w + 1
    /\ y - 1 <= c[2] /\ c[2] <= y + h + 1
    /\ ~ (/\ x + 1 < c[1] /\ c[1] < x + w - 1
          /\ y + 1 < c[2] /\ c[2] < y + h - 1)
    /\ ~ (/\ c[1] \in {x - 1, x + w + 1}
          /\ c[2] \in {y - 1, y + h + 1})

\* the image with the rectangle of region r drawn on it, clipped to the image
rectangle(img, r) ==
    [img EXCEPT !.px = [c \in Coords(img.w, img.h) |->
                          IF OnOutline(c, r.x, r.y, r.w, r.h) THEN Red ELSE img.px[c]]]

Min(S) == CHOOSE m \in S : \A n \in S : m <= n

Max(S) == CHOOSE m \in S : \A n \in S : m >= n

\* cv2.boundingRect of a contour (the pixels of one connected area)
boundingRect(S) ==
    LET xs == {c[1] : c \in S}
        ys == {c[2] : c \in S}
    IN [x |-> Min(xs), y |-> Min(ys),
        w |-> Max(xs) - Min(xs) + 1, h |-> Max(ys) - Min(ys) + 1]

RECURSIVE DrawAll(_, _)
\* the loop over the contours: one rectangle per contour, around its
\* bounding box
DrawAll(img, contours) ==
    IF contours = {} THEN img
    ELSE LET c == CHOOSE k \in contours : TRUE
         IN DrawAll(rectangle(img, boundingRect(c)), contours \ {c})

\* the ways NumPy's astype('uint8') may turn a negative number into a byte:
\* the C conversion is undefined there, and builds either wrap modulo 256 or
\* give 0
CastModes == {"wrap", "zero"}

\* n / d rounded towards zero
Trunc(n, d) == IF n >= 0 THEN n \div d ELSE - ((- n) \div d)

\* the grain of a value S of the similarity map: the map holds the whole
\* part of MapUnit * S, from which line 58 takes the whole part of 10000 S
\* and line 60 the whole part of 255 S, either without error
ScoreUnit == 10000

MapUnit == 255 * ScoreUnit

\* (v * 255).astype('uint8') of one value v of the map
astype_uint8(v, mode) ==
    LET t == Trunc(v, ScoreUnit)
    IN IF t >= 0 THEN t % 256
       ELSE IF mode = "wrap" THEN t % 256 ELSE 0

\* line 60: diff = (diff * 255).astype('uint8')
ScaleDiff(d, mode) == [c \in DOMAIN d |-> astype_uint8(d[c], mode)]

RECURSIVE SumOver(_, _)
\* the sum of the values of m at the pixels S
SumOver(m, S) ==
    IF S = {} THEN 0
    ELSE LET c == CHOOSE k \in S : TRUE
         IN m[c] + SumOver(m, S \ {c})

RECURSIVE BigTimes(_, _, _)
\* the natural number n * k + carry, n and the result being written in
\* base 100, lowest digit first (the products of the similarity and of
\* Otsu's variances exceed the 32 bits of an integer here)
BigTimes(n, k, carry) ==
    IF n = <<>>
    THEN IF carry = 0 THEN <<>> ELSE <<carry % 100>> \o BigTimes(<<>>, k, carry \div 100)
    ELSE LET v == Head(n) * k + carry
         IN <<v % 100>> \o BigTimes(Tail(n), k, v \div 100)

\* the natural number k, so written
Big(k) == BigTimes(<<>>, 0, k)

RECURSIVE BigAdd(_, _, _)
\* a + b + carry
BigAdd(a, b, carry) ==
    IF a = <<>> /\ b = <<>>
    THEN IF carry = 0 THEN <<>> ELSE <<carry>>
    ELSE LET v == (IF a = <<>> THEN 0 ELSE Head(a)) + (IF b = <<>> THEN 0 ELSE Head(b)) + carry
         IN <<v % 100>> \o BigAdd(IF a = <<>> THEN <<>> ELSE Tail(a),
                                  IF b = <<>> THEN <<>> ELSE Tail(b), v \div 100)

RECURSIVE BigMul(_, _)
\* a * b
BigMul(a, b) ==
    IF a = <<>> THEN <<>>
    ELSE BigAdd(BigTimes(b, Head(a), 0), <<0>> \o BigMul(Tail(a), b), 0)

RECURSIVE BigSub(_, _, _)
\* a - b - borrow, b + borrow being at most a
BigSub(a, b, borrow) ==
    IF a = <<>> THEN <<>>
    ELSE LET v == Head(a) - (IF b = <<>> THEN 0 ELSE Head(b)) - borrow
         IN <<(v + 100) % 100>> \o BigSub(Tail(a), IF b = <<>> THEN <<>> ELSE Tail(b),
                                          IF v < 0 THEN 1 ELSE 0)

RECURSIVE BigTrim(_)
\* n without its leading zeros
BigTrim(n) ==
    IF n = <<>> \/ n[Len(n)] # 0 THEN n ELSE BigTrim(SubSeq(n, 1, Len(n) - 1))

RECURSIVE BigLessDigits(_, _)
\* a < b, neither with leading zeros
BigLessDigits(a, b) ==
    IF Len(a) # Len(b) THEN Len(a) < Len(b)
    ELSE IF a = <<>> THEN FALSE
    ELSE IF a[Len(a)] # b[Len(b)] THEN a[Len(a)] < b[Len(b)]
    ELSE BigLessDigits(SubSeq(a, 1, Len(a) - 1), SubSeq(b, 1, Len(b) - 1))

\* a < b
BigLess(a, b) == BigLessDigits(BigTrim(a), BigTrim(b))

RECURSIVE BigQuot(_, _, _, _)
\* the greatest r in lo .. hi with r * den <= num
BigQuot(num, den, lo, hi) ==
    IF lo >= hi THEN lo
    ELSE LET mid == (lo + hi + 1) \div 2
         IN IF BigLess(num, BigTimes(den, mid, 0))
            THEN BigQuot(num, den, lo, mid - 1)
            ELSE BigQuot(num, den, mid, hi)

\* Otsu's between-class variance of the split of m at level t (values <= t
\* against values > t), as a fraction num / den without the common factor:
\* the root of the numerator
OtsuRoot(m, t) ==
    LET lo == {c \in DOMAIN m : m[c] <= t}
        hi == {c \in DOMAIN m : m[c] > t}
        x == SumOver(m, lo) * Cardinality(hi) - SumOver(m, hi) * Cardinality(lo)
    IN IF x < 0 THEN 0 - x ELSE x

OtsuDen(m, t) ==
    Cardinality({c \in DOMAIN m : m[c] <= t}) * Cardinality({c \in DOMAIN m : m[c] > t})

\* the variance at level t is below the variance at level u
OtsuLess(m, t, u) ==
    BigLess(BigTimes(BigTimes(BigTimes(<<>>, 0, OtsuDen(m, u)), OtsuRoot(m, t), 0), OtsuRoot(m, t), 0),
            BigTimes(BigTimes(BigTimes(<<>>, 0, OtsuDen(m, t)), OtsuRoot(m, u), 0), OtsuRoot(m, u), 0))

\* cv2.THRESH_OTSU: a level of the largest between-class variance, 0 when
\* every pixel has the same value. OpenCV computes the variances in floating
\* point and keeps the first level whose computed variance is strictly the
\* largest: among levels whose variances are exactly equal the rounding
\* decides, so each of them is a possible outcome
otsu(m) ==
    LET cand == {t \in {m[c] : c \in DOMAIN m} : \E c \in DOMAIN m : m[c] > t}
    IN IF cand = {} THEN {0}
       ELSE {t \in cand : \A u \in cand : ~ OtsuLess(m, t, u)}

\* lines 64-65: cv2.threshold(diff, 0, 255, THRESH_BINARY_INV | THRESH_OTSU)[1]:
\* 0 where the value is above Otsu's level, 255 elsewhere
threshold_binary_inv(m, level) ==
    [c \in DOMAIN m |-> IF m[c] > level THEN 0 ELSE 255]

\* neighbours: the 8 around a pixel (n = 8) or the 4 beside it (n = 4)
Adjacent(c, d, n) ==
    LET dx == IF c[1] >= d[1] THEN c[1] - d[1] ELSE d[1] - c[1]
        dy == IF c[2] >= d[2] THEN c[2] - d[2] ELSE d[2] - c[2]
    IN /\ c # d
       /\ IF n = 8 THEN dx <= 1 /\ dy <= 1 ELSE dx + dy = 1

RECURSIVE Grow(_, _, _, _)
\* S, grown by the pixels of F connected to one of its last additions
Grow(S, last, F, n) ==
    LET more == {d \in F \ S : \E e \in last : Adjacent(e, d, n)}
    IN IF more = {} THEN S ELSE Grow(S \cup more, more, F, n)

\* the pixels of F connected to one of S
Reach(S, F, n) == Grow(S, S, F, n)

RECURSIVE Areas(_)
\* the connected areas of F, diagonal neighbours included
Areas(F) ==
    IF F = {} THEN {}
    ELSE LET k == Reach({CHOOSE c \in F : TRUE}, F, 8)
         IN {k} \cup Areas(F \ k)

\* lines 69-70: cv2.findContours(threshold, RETR_EXTERNAL, ...)[1]: one
\* contour per connected area of non-zero pixels that lies in no hole of
\* another (it touches the border of the image or the background around it)
findContours(t, w, h) ==
    LET F == {c \in DOMAIN t : t[c] # 0}
        B == DOMAIN t \ F
        OnBorder(c) == c[1] = 0 \/ c[1] = w - 1 \/ c[2] = 0 \/ c[2] = h - 1
        outer == Reach({b \in B : OnBorder(b)}, B, 4)
        areas == Areas(F)
    IN {k \in areas : \E c \in k : OnBorder(c) \/ \E b \in outer : Adjacent(c, b, 4)}

\* ------------------------------------------------------------ scikit-image

\* a compare_ssim that accepts any two grids
SameShapeAlways(g1, g2) == TRUE

\* compare_ssim raises ValueError unless the two grids have the same shape
SameShape(g1, g2) == g1.w = g2.w /\ g1.h = g2.h

\* the side of compare_ssim's window, in pixels (its default)
win_size == 7

\* compare_ssim raises ValueError ("win_size exceeds image extent") when a
\* side of the grid is shorter than the window
FitsWindow(g) == g.w >= win_size /\ g.h >= win_size

\* the reach of the window around its centre
WinRadius == (win_size - 1) \div 2

\* index i of a line of n pixels under scipy's 'reflect' rule for the places
\* outside the line (d c b a | a b c d | d c b a)
Reflect(i, n) ==
    LET j == (i + 4 * n) % (2 * n)
    IN IF j < n THEN j ELSE 2 * n - 1 - j

\* the one element of a set of one element
Only(S) == CHOOSE x \in S : TRUE

\* the function f itself, held as a table of its values
Tabulate(f) == f @@ <<>>

\* the sum of the values of f, none of them negative
Total(f) == BagCardinality([x \in DOMAIN f |-> f[x] + 1]) - Cardinality(DOMAIN f)

\* the sums of f over the win_size pixels around each pixel of its row
FilterRows(f, w, h) ==
    [c \in Coords(w, h) |->
        Total([d \in - WinRadius .. WinRadius |-> f[<<Reflect(c[1] + d, w), c[2]>>]])]

\* the sums of f over the win_size pixels around each pixel of its column
FilterColumns(f, w, h) ==
    [c \in Coords(w, h) |->
        Total([d \in - WinRadius .. WinRadius |-> f[<<c[1], Reflect(c[2] + d, h)>>]])]

\* scipy's uniform_filter(f, size=win_size), times the pixels of a window:
\* the sum of f over the window around each pixel, rows first, then columns
uniform_filter(f, w, h) ==
    Only({Tabulate(FilterColumns(r, w, h)) : r \in {Tabulate(FilterRows(f, w, h))}})

\* the sums of x, y, x^2, y^2 and x y over the window around each pixel of
\* the grids g1 and g2 (the five filtered means of compare_ssim, times the
\* pixels of a window); g2 is read at the places of g1, which are its own
\* places when the two have one shape
Moments(g1, g2) ==
    LET w == g1.w
        h == g1.h
        X == g1.px
        Y == [c \in Coords(w, h) |-> g2.px[<<Reflect(c[1], g2.w), Reflect(c[2], g2.h)>>]]
    IN Only({Tabulate([c \in Coords(w, h) |-> <<sx[c], sy[c], sxx[c], syy[c], sxy[c]>>]) :
                sx \in {uniform_filter(X, w, h)},
                sy \in {uniform_filter(Y, w, h)},
                sxx \in {uniform_filter([c \in Coords(w, h) |-> X[c] * X[c]], w, h)},
                syy \in {uniform_filter([c \in Coords(w, h) |-> Y[c] * Y[c]], w, h)},
                sxy \in {uniform_filter([c \in Coords(w, h) |-> X[c] * Y[c]], w, h)}})

\* the structural similarity of two windows with the sums t, as compare_ssim
\* computes it with its defaults (uniform window, sample covariance,
\* K1 = 0.01, K2 = 0.03, data range 255):
\*   S = (2 ux uy + C1) (2 vxy + C2) / ((ux^2 + uy^2 + C1) (vx + vy + C2))
\* as the fraction num / den, negative when neg.  With n the pixels of a
\* window and m = n (n - 1), and 400 C1 = 2601, 400 C2 = 23409, the four
\* factors times 400 n^2 and 400 m are whole numbers.
ssim_of(t) ==
    LET sx == t[1]
        sy == t[2]
        sxx == t[3]
        syy == t[4]
        sxy == t[5]
        n == win_size * win_size
        m == n * (n - 1)
        cov == n * sxy - sx * sy
        \* 400 C2 m = 800 * lim + rest
        lim == (23409 * m) \div 800
        rest == (23409 * m) % 800
        A1 == BigTimes(Big(sx * sy), 800, 2601 * n * n)
        B1 == BigTimes(Big(sx * sx + sy * sy), 400, 2601 * n * n)
        positive == cov >= 0 - lim
        A2 == IF cov >= 0 THEN BigTimes(Big(cov), 800, 23409 * m)
              ELSE IF positive THEN Big(800 * (lim + cov) + rest)
              ELSE BigTimes(Big(0 - cov - lim - 1), 800, 800 - rest)
        B2 == BigTimes(Big((n * sxx - sx * sx) + (n * syy - sy * sy)), 400, 23409 * m)
    IN [neg |-> ~ positive, num |-> BigMul(A1, A2), den |-> BigMul(B1, B2)]

\* the whole part of k times the size of the fraction r (at most 1)
Cut(r, k) == BigQuot(BigTimes(r.num, k, 0), r.den, 0, k)

\* k times the fraction r is a whole number
Whole(r, k) == BigTrim(BigTimes(r.den, Cut(r, k), 0)) = BigTrim(BigTimes(r.num, k, 0))

\* the pixels at which the two grids differ
Differing(g1, g2) ==
    {d \in Coords(g1.w, g1.h) :
        g1.px[d] # g2.px[<<Reflect(d[1], g2.w), Reflect(d[2], g2.h)>>]}

\* uniform_filter keeps a running mean along each line, so the filtered
\* means of the two grids at pixel c went through different roundings when
\* a pixel at which the grids differ has entered a window on the way to c
Passed(D, c) ==
    \E d \in D : d[1] <= c[1] + WinRadius /\ d[2] <= c[2] + WinRadius

\* the similarity of two windows with the sums u as the map holds it, and
\* whether it is exactly on the edge of a byte (255 S whole, as S = 1.0 where
\* the windows are equal)
ssim_entry(u) ==
    Only({<<u, IF r.neg THEN 0 - Cut(r, MapUnit) ELSE Cut(r, MapUnit), Whole(r, 255)>> :
             r \in {ssim_of(u)}})

\* the similarity map S of compare_ssim(full=True), from the sums t (each
\* distinct tuple of sums worked out once).  The code computes S in
\* floating point: a value that is exactly on the edge of a byte comes out on
\* the edge or just inside it, the roundings on the way deciding, when the
\* means of the two grids were rounded differently; each is a possible map
ssim_maps(t, D) ==
    Only({ {[c \in DOMAIN t |->
                LET v == (CHOOSE p \in T : p[1] = t[c])[2]
                IN IF c \in L THEN (IF v > 0 THEN v - 1 ELSE v + 1) ELSE v] :
              L \in SUBSET {c \in DOMAIN t :
                              /\ Passed(D, c)
                              /\ (CHOOSE p \in T : p[1] = t[c])[2] # 0
                              /\ (CHOOSE p \in T : p[1] = t[c])[3]}} :
           T \in {{ssim_entry(u) : u \in {t[c] : c \in DOMAIN t}}} })

\* the sum of the fractions a and b
RatAdd(a, b) ==
    LET x == BigMul(a.num, b.den)
        y == BigMul(b.num, a.den)
        den == BigMul(a.den, b.den)
    IN IF a.neg = b.neg THEN [neg |-> a.neg, num |-> BigAdd(x, y, 0), den |-> den]
       ELSE IF BigLess(x, y) THEN [neg |-> b.neg, num |-> BigSub(y, x, 0), den |-> den]
       ELSE [neg |-> a.neg, num |-> BigSub(x, y, 0), den |-> den]

RECURSIVE RatSum(_, _)
\* the sum of the similarities of the pixels P
RatSum(t, P) ==
    IF P = {} THEN [neg |-> FALSE, num |-> <<>>, den |-> Big(1)]
    ELSE Only({RatAdd(ssim_of(t[c]), RatSum(t, P \ {c})) : c \in {CHOOSE k \in P : TRUE}})

\* the greatest whole number of k-ths that is at most the fraction r
Floor(r, k) ==
    IF ~ r.neg THEN Cut(r, k)
    ELSE IF Whole(r, k) THEN 0 - Cut(r, k)
    ELSE 0 - Cut(r, k) - 1

\* the score of compare_ssim: the mean of S over the pixels whose window
\* lies within the image
mssim(t, w, h) ==
    LET inner == (WinRadius .. (w - 1 - WinRadius)) \X (WinRadius .. (h - 1 - WinRadius))
    IN Only({Floor([neg |-> s.neg, num |-> s.num,
                    den |-> BigTimes(s.den, Cardinality(inner), 0)], ScoreUnit) :
                s \in {RatSum(t, inner)}})

\* ---------------------------------------------------------------- Pillow

\* Image.open(path) raises unless the path is an image file
CanOpen(files, path) == files[path].kind = "png"

\* Image.open(path): the image, pixels in RGB order
Image_open(files, path) ==
    [w |-> files[path].w, h |-> files[path].h, px |-> files[path].px]

\* a canvas as wide as the first image only
total_width_first(images) == images[1].w

\* total_width = sum(widths)
total_width(images) == images[1].w + images[2].w

\* total_height = max(heights)
total_height(images) == Max({images[1].h, images[2].h})

\* the fill of Image.new('RGB', size)
Background == <<0, 0, 0>>

Image_new(w, h) == [w |-> w, h |-> h, px |-> [c \in Coords(w, h) |-> Background]]

\* diff_image.paste(image, (x_offset, 0)), clipped to the canvas
paste(canvas, image, x_offset) ==
    [canvas EXCEPT !.px = [c \in Coords(canvas.w, canvas.h) |->
        IF /\ c[1] >= x_offset /\ c[1] < x_offset + image.w /\ c[2] < image.h
        THEN image.px[<<c[1] - x_offset, c[2]>>]
        ELSE canvas.px[c]]]

\* an offset that is never advanced
next_offset_stuck(x_offset, image) == x_offset

\* x_offset += image.size[0]
next_offset(x_offset, image) == x_offset + image.w

\* the loop pasting the two images side by side
diff_image(images) ==
    LET canvas == Image_new(total_width(images), total_height(images))
        one == paste(canvas, images[1], 0)
    IN paste(one, images[2], next_offset(0, images[1]))

\* diff_image.save(file_path, format='png') raises unless the path can be written
CanSave(files, path) == path # None /\ files[path].kind # "dir"

Image_save(files, path, img) == [files EXCEPT ![path] = PngFile(img.w, img.h, img.px)]

\* ------------------------------------------------------------------ state

InitFiles ==
    {f \in [Paths -> {Absent, Dir, Garbage, ImgA, ImgB, ImgC}] :
        /\ f["one.png"] = ImgA
        /\ f["two.png"] \in {ImgB, ImgC, Garbage}
        /\ f[DefaultDiff] \in {Absent, Dir}
        /\ f[_temp_image_one] \in {Absent, Dir, ImgB}
        /\ f[_temp_image_two] \in {Absent, Dir}}

\* the arguments the caller may pass
ImagePaths == {"one.png", "two.png", _temp_image_one}

\* 0.01 and the default, 1.0
Thresholds == {100, 10000}

DiffPaths == {None, DefaultDiff, _temp_image_one}

Init ==
    /\ fs \in InitFiles
    /\ pc = "idle"
    /\ image_one = None /\ image_two = None
    /\ ssim_threshold = 10000
    /\ save_diff_to = DefaultDiff
    /\ _image_one = NoImage /\ _image_two = NoImage
    /\ score = NoScore
    /\ diff = NoMap
    /\ stdout = <<>>
    /\ result = NoScore
    /\ err = ""
    /\ steps = {}
    /\ saved = FALSE
    /\ fs0 = fs
    /\ artifacts = {}
    /\ ncalls = 0

Ended == pc \in {"returned", "raised"}

\* an exception leaves compare_images
Raise(e) == pc' = "raised" /\ err' = e

\* ---------------------------------------------------------- compare_images

\* the caller invokes compare_images(image_one, image_two, ssim_threshold, save_diff_to)
Call(one, two, threshold, diff_to) ==
    /\ pc \in {"idle", "returned", "raised"}
    /\ ncalls < MaxCalls
    /\ ncalls' = ncalls + 1
    /\ image_one' = one /\ image_two' = two
    /\ ssim_threshold' = threshold /\ save_diff_to' = diff_to
    /\ _image_one' = NoImage /\ _image_two' = NoImage
    /\ score' = NoScore /\ diff' = NoMap
    /\ stdout' = <<>> /\ result' = NoScore /\ err' = ""
    /\ steps' = {} /\ saved' = FALSE
    /\ fs0' = fs
    /\ pc' = "imread"
    /\ UNCHANGED <<fs, artifacts>>

\* lines 46-51: read both images, then convert each to greyscale; cvtColor
\* raises cv2.error on the None that imread gives for an unreadable path
Decode ==
    /\ pc = "imread"
    /\ _image_one' = imread(fs, image_one)
    /\ _image_two' = imread(fs, image_two)
    /\ IF _image_one' = NoImage \/ _image_two' = NoImage
       THEN Raise("cv2.error")
       ELSE pc' = "compare_ssim" /\ err' = err
    /\ steps' = steps \cup {"imread", "cvtColor"}
    /\ UNCHANGED <<fs, image_one, image_two, ssim_threshold, save_diff_to,
                   score, diff, stdout, result, saved, fs0, artifacts, ncalls>>

\* the comparison, were it not strict
BelowThresholdOrEqual(s, threshold) == s <= threshold

\* the comparison, were it a test for inequality
BelowThresholdUnequal(s, threshold) == s # threshold

\* score < ssim_threshold
BelowThreshold(s, threshold) == s < threshold

\* lines 57-59: score the greyscale images, print the score, compare it with
\* the threshold
Score ==
    /\ pc = "compare_ssim"
    /\ \E grayscale_one \in {cvtColor(_image_one)}, grayscale_two \in {cvtColor(_image_two)} :
          IF ~ SameShape(grayscale_one, grayscale_two) \/ ~ FitsWindow(grayscale_one)
          THEN /\ Raise("ValueError")
               /\ steps' = steps \cup {"compare_ssim"}
               /\ UNCHANGED <<score, diff, stdout>>
          ELSE \E t \in {Moments(grayscale_one, grayscale_two)} :
               \E d \in ssim_maps(t, Differing(grayscale_one, grayscale_two)) :
               \E s \in {mssim(t, grayscale_one.w, grayscale_one.h)} :
               /\ score' = <<s>>
               /\ diff' = d
               /\ stdout' = Append(stdout, <<"SSIM: ", s>>)
               /\ steps' = steps \cup {"compare_ssim", "print"}
               /\ pc' = IF BelowThreshold(s, ssim_threshold) THEN "threshold" ELSE "return"
               /\ err' = err
    /\ UNCHANGED <<fs, image_one, image_two, ssim_threshold, save_diff_to,
                   _image_one, _image_two, result, saved, fs0, artifacts, ncalls>>

\* the test of save_diff_to, were it missing
SaveRequestedAlways(diff_to) == TRUE

\* save_diff_to is not None
SaveRequested(diff_to) == diff_to # None

\* lines 60-77: binarise the difference, find the contours, draw a rectangle
\* per contour on both images
Render ==
    /\ pc = "threshold"
    /\ \E mode \in CastModes : \E level \in otsu(ScaleDiff(diff, mode)) :
          LET scaled == ScaleDiff(diff, mode)
              threshold == threshold_binary_inv(scaled, level)
              contours == findContours(threshold, _image_one.w, _image_one.h)
          IN /\ diff' = scaled
             /\ _image_one' = DrawAll(_image_one, contours)
             /\ _image_two' = DrawAll(_image_two, contours)
             /\ steps' = steps \cup {"threshold", "findContours"}
                               \cup (IF contours # {} THEN {"rectangle"} ELSE {})
    /\ pc' = IF SaveRequested(save_diff_to) THEN "imwrite" ELSE "return"
    /\ UNCHANGED <<fs, image_one, image_two, ssim_threshold, save_diff_to,
                   score, stdout, result, err, saved, fs0, artifacts, ncalls>>

\* line 81
Return ==
    /\ pc = "return"
    /\ result' = score
    /\ pc' = "returned"
    /\ UNCHANGED <<fs, image_one, image_two, ssim_threshold, save_diff_to,
                   _image_one, _image_two, score, diff, stdout, err, steps, saved,
                   fs0, artifacts, ncalls>>

\* -------------------------------------------------------- _save_image_diff

\* lines 99-102: write the two annotated images to the temporary files
WriteTemps ==
    /\ pc = "imwrite"
    /\ fs' = imwrite(imwrite(fs, _temp_image_one, _image_one), _temp_image_two, _image_two)
    /\ artifacts' = artifacts \ {t \in TempNames : fs[t].kind # "dir"}
    /\ steps' = steps \cup {"imwrite"}
    /\ pc' = "try"
    /\ UNCHANGED <<image_one, image_two, ssim_threshold, save_diff_to,
                   _image_one, _image_two, score, diff, stdout, result, err, saved,
                   fs0, ncalls>>

\* lines 104-119: open the two temporary files, paste them side by side and
\* save the result; whatever is raised on the way is swallowed
Compose ==
    /\ pc = "try"
    /\ IF CanOpen(fs, _temp_image_one) /\ CanOpen(fs, _temp_image_two)
       THEN LET images == <<Image_open(fs, _temp_image_one), Image_open(fs, _temp_image_two)>>
            IN IF CanSave(fs, save_diff_to)
               THEN /\ fs' = Image_save(fs, save_diff_to, diff_image(images))
                    /\ artifacts' = artifacts \cup {save_diff_to}
                    /\ saved' = TRUE
                    /\ steps' = steps \cup {"Image.open", "paste", "save"}
               ELSE /\ steps' = steps \cup {"Image.open", "paste", "save", "except"}
                    /\ UNCHANGED <<fs, saved, artifacts>>
       ELSE /\ steps' = steps \cup {"Image.open", "except"}
            /\ UNCHANGED <<fs, saved, artifacts>>
    /\ pc' = "finally"
    /\ UNCHANGED <<image_one, image_two, ssim_threshold, save_diff_to,
                   _image_one, _image_two, score, diff, stdout, result, err, fs0, ncalls>>

\* lines 121-123: remove the two temporary files; an exception of the first
\* remove leaves the function before the second
Cleanup ==
    /\ pc = "finally"
    /\ steps' = steps \cup {"remove"}
    /\ IF ~ CanRemove(fs, _temp_image_one)
       THEN Raise("OSError") /\ UNCHANGED fs
       ELSE IF ~ CanRemove(remove(fs, _temp_image_one), _temp_image_two)
            THEN Raise("OSError") /\ fs' = remove(fs, _temp_image_one)
            ELSE /\ fs' = remove(remove(fs, _temp_image_one), _temp_image_two)
                 /\ pc' = "return" /\ err' = err
    /\ artifacts' = {p \in artifacts : fs'[p].kind # "absent"}
    /\ UNCHANGED <<image_one, image_two, ssim_threshold, save_diff_to,
                   _image_one, _image_two, score, diff, stdout, result, saved, fs0, ncalls>>

Next ==
    \/ \E one \in ImagePaths, two \in ImagePaths, threshold \in Thresholds,
          diff_to \in DiffPaths : Call(one, two, threshold, diff_to)
    \/ Decode
    \/ Score
    \/ Render
    \/ WriteTemps
    \/ Compose
    \/ Cleanup
    \/ Return

Spec == Init /\ [][Next]_vars

\* ------------------------------------------------------------------ claims

\* the score the current invocation computed
Scored == score # NoScore

ScoreBelow == Scored /\ score[1] < ssim_threshold

ScoreNotBelow == Scored /\ score[1] >= ssim_threshold

\* both arguments named a decodable image when the invocation began
BothDecode ==
    /\ image_one \in Paths /\ image_two \in Paths
    /\ fs0[image_one].kind = "png" /\ fs0[image_two].kind = "png"

EqualDimensions ==
    /\ fs0[image_one].w = fs0[image_two].w
    /\ fs0[image_one].h = fs0[image_two].h

\* the statements of the rendering branch and of _save_image_diff
RenderSteps == {"threshold", "findContours", "rectangle"}

SaveSteps == {"imwrite", "Image.open", "paste", "save", "except", "remove"}

\* C1 (as claimed): once an invocation has ended, by return or by exception,
\* neither temporary path holds a file the invocation left there: each is
\* absent, or is what it was before the call.
C1_NoTempFileLeft ==
    Ended => \A t \in TempNames : fs[t].kind = "absent" \/ fs[t] = fs0[t]

\* C2 (as claimed): when both inputs decode and have equal dimensions, and
\* the scoring step gave a score, the invocation returns, and returns the
\* score it printed, whatever fails in _save_image_diff.
C2_RenderFailureAbsorbed ==
    (Ended /\ BothDecode /\ EqualDimensions /\ Scored) =>
        /\ pc = "returned"
        /\ result = score
        /\ stdout = <<<<"SSIM: ", score[1]>>>>

\* C3 (as claimed): a return with score < ssim_threshold and save_diff_to not
\* None leaves an artifact at save_diff_to, as wide as the two inputs together
\* and as high as the higher of them.
C3_ArtifactExists ==
    (pc = "returned" /\ ScoreBelow /\ save_diff_to # None) =>
        /\ save_diff_to \in artifacts
        /\ fs[save_diff_to].kind = "png"
        /\ fs[save_diff_to].w = fs0[image_one].w + fs0[image_two].w
        /\ fs[save_diff_to].h = Max({fs0[image_one].h, fs0[image_two].h})

\* C3 (amended): a return with score < ssim_threshold and save_diff_to not
\* None, after a composition that did not fail, to a path that is neither of
\* the temporary files, leaves an artifact at save_diff_to, as wide as the two
\* inputs together and as high as the higher of them.
C3_ArtifactExistsWhenSaved ==
    (pc = "returned" /\ ScoreBelow /\ save_diff_to # None
        /\ saved /\ save_diff_to \notin TempNames) =>
        /\ save_diff_to \in artifacts
        /\ fs[save_diff_to].kind = "png"
        /\ fs[save_diff_to].w = fs0[image_one].w + fs0[image_two].w
        /\ fs[save_diff_to].h = Max({fs0[image_one].h, fs0[image_two].h})

\* C3 witness: a return below the threshold with the artifact of two
\* different inputs at the default path
C3_Witness ==
    /\ pc = "returned" /\ ScoreBelow /\ saved
    /\ save_diff_to = DefaultDiff
    /\ fs[DefaultDiff].kind = "png"
    /\ fs[DefaultDiff].w = fs0[image_one].w + fs0[image_two].w
    /\ fs0[image_one] # fs0[image_two]

\* C4 (as claimed): a return with score >= ssim_threshold leaves no artifact
\* at save_diff_to, whatever earlier invocations did.
C4_NoArtifactAtOrAboveThreshold ==
    (pc = "returned" /\ ScoreNotBelow /\ save_diff_to # None) =>
        save_diff_to \notin artifacts

\* C4 (amended): an invocation that returns with score >= ssim_threshold has
\* created, changed and removed no file: it writes no artifact, and what was
\* at save_diff_to before the call, an earlier artifact included, is still
\* there.
C4_NoFileTouchedAtOrAboveThreshold ==
    (pc = "returned" /\ ScoreNotBelow) =>
        /\ fs = fs0
        /\ ~ saved
        /\ steps \cap (RenderSteps \cup SaveSteps) = {}

\* C4 witness: a return with score 1.0 at threshold 1.0 while save_diff_to
\* holds the artifact of an earlier invocation
C4_Witness ==
    /\ pc = "returned" /\ ScoreNotBelow /\ score = <<10000>> /\ ssim_threshold = 10000
    /\ save_diff_to # None /\ save_diff_to \in artifacts

\* C5: with score < ssim_threshold and save_diff_to None the invocation
\* returns the score, touches no file and never enters _save_image_diff.
C5_NoArtifactWithoutPath ==
    (Ended /\ ScoreBelow /\ save_diff_to = None) =>
        /\ pc = "returned" /\ result = score
        /\ fs = fs0
        /\ ~ saved
        /\ steps \cap SaveSteps = {}

\* C5 witness: a return below the threshold, rectangles drawn, save_diff_to None
C5_Witness ==
    /\ pc = "returned" /\ ScoreBelow /\ save_diff_to = None
    /\ "rectangle" \in steps

\* C6: two decodable images of different dimensions make compare_ssim raise:
\* nothing is printed or returned, no rectangle is drawn, no file is written,
\* and the invocation goes no further than the scoring.
C6_DimensionMismatchRaises ==
    (BothDecode /\ ~ EqualDimensions) =>
        /\ pc \in {"imread", "compare_ssim", "raised"}
        /\ pc = "raised" => err = "ValueError"
        /\ stdout = <<>> /\ score = NoScore /\ diff = NoMap /\ result = NoScore
        /\ fs = fs0
        /\ steps \subseteq {"imread", "cvtColor", "compare_ssim"}
        /\ pc # "imread" =>
              /\ _image_one = imread(fs0, image_one)
              /\ _image_two = imread(fs0, image_two)

\* C6 witness: compare_ssim has raised on two decodable images of different sizes
C6_Witness ==
    /\ BothDecode /\ ~ EqualDimensions
    /\ pc = "raised" /\ err = "ValueError" /\ "compare_ssim" \in steps

\* C7: an input path that is missing or holds no decodable image makes the
\* invocation raise before the scoring: nothing is printed or returned, and
\* no file is created or changed.
C7_DecodeFailureAborts ==
    (pc # "idle" /\ ~ BothDecode) =>
        /\ pc \in {"imread", "raised"}
        /\ pc = "raised" => err = "cv2.error"
        /\ stdout = <<>> /\ score = NoScore /\ diff = NoMap /\ result = NoScore
        /\ fs = fs0
        /\ steps \subseteq {"imread", "cvtColor"}

\* C7 witness: the first image decodes, the second does not, and cvtColor raised
C7_Witness ==
    /\ pc = "raised" /\ err = "cv2.error"
    /\ fs0[image_one].kind = "png" /\ fs0[image_two].kind \in {"absent", "data", "dir"}

\* C8 (as claimed): once the score is computed, the whole rendering path
\* (binarization, region extraction, rectangle drawing, temporary-file
\* writes, artifact write) is executed exactly when score < ssim_threshold
\* (strictly), and none of it otherwise.
C8_WholePathIffBelowThreshold ==
    (Ended /\ Scored) =>
        /\ ({"threshold", "findContours", "rectangle", "imwrite", "save"} \subseteq steps)
               <=> (score[1] < ssim_threshold)
        /\ (steps \cap (RenderSteps \cup SaveSteps) # {}) => (score[1] < ssim_threshold)

\* C8 (amended): once the score is computed, binarization and region
\* extraction are executed exactly when score < ssim_threshold (strictly);
\* the temporary files are written exactly when moreover save_diff_to is not
\* None; rectangles are drawn only when score < ssim_threshold, and the
\* artifact is written only after the temporary files were; a score at or
\* above the threshold triggers none of it.
C8_RenderIffBelowThreshold ==
    (Ended /\ Scored) =>
        /\ ({"threshold", "findContours"} \subseteq steps) <=> (score[1] < ssim_threshold)
        /\ (steps \cap RenderSteps # {}) => (score[1] < ssim_threshold)
        /\ ("imwrite" \in steps) <=> (score[1] < ssim_threshold /\ save_diff_to # None)
        /\ (steps \cap SaveSteps # {}) => ("imwrite" \in steps)

\* C8 witness: two files holding the same picture score exactly the
\* threshold 1.0, with a path to save to, and nothing is rendered
C8_Witness ==
    /\ pc = "returned" /\ score = <<ssim_threshold>> /\ ssim_threshold = 10000
    /\ image_one # image_two /\ save_diff_to = DefaultDiff
    /\ steps \cap (RenderSteps \cup SaveSteps) = {}

\* the pixel of the side-by-side picture of a and b (BGR images) at c, in RGB
SideBySide(a, b, c) ==
    IF c[1] < a.w /\ c[2] < a.h THEN Swap(a.px[c])
    ELSE IF c[1] >= a.w /\ c[1] < a.w + b.w /\ c[2] < b.h
         THEN Swap(b.px[<<c[1] - a.w, c[2]>>])
         ELSE Background

\* C9: when the composition succeeds, the file at file_path is the two
\* annotated images side by side: the first at the origin, the second to its
\* right, on a canvas of the sum of the widths by the larger height, and the
\* background wherever neither lies.
C9_ArtifactIsConcatenation ==
    (saved /\ (pc = "finally" \/ (Ended /\ save_diff_to \notin TempNames))) =>
        LET f == fs[save_diff_to] IN
        /\ f.kind = "png"
        /\ f.w = _image_one.w + _image_two.w
        /\ f.h = Max({_image_one.h, _image_two.h})
        /\ \A c \in Coords(f.w, f.h) : f.px[c] = SideBySide(_image_one, _image_two, c)

\* C9 witness: an artifact of two annotated images that differ, whose left
\* and right halves differ at the same place
C9_Witness ==
    /\ saved /\ pc = "returned" /\ save_diff_to = DefaultDiff
    /\ _image_one.px # _image_two.px
    /\ \E c \in Coords(_image_one.w, _image_one.h) :
          fs[DefaultDiff].px[c] # fs[DefaultDiff].px[<<c[1] + _image_one.w, c[2]>>]

\* C10 (as claimed): an invocation leaves the files at image_one and
\* image_two as they were, whatever paths it is given.
C10_InputsUntouched ==
    Ended => \A p \in {image_one, image_two} :
                fs0[p].kind \in {"png", "data"} => fs[p] = fs0[p]

====
